---- MODULE Spec2Model ----
(***************************************************************************)
(* Model of the AlphaFlow lead-follow causality engine                     *)
(* (alphaflow-server.js): the tick handler processTickerUpdate, the state  *)
(* it mutates (marketData, pendingUpdates), the read-side projections      *)
(* (matrix snapshot, best pairs, CSV export), and the server around them:  *)
(* the feed socket and its reconnect timer, the dashboard clients and the  *)
(* broadcast timer, periodic persistence, the REST API and SIGINT.         *)
(* Each handler is synchronous and is one action.                          *)
(*                                                                         *)
(* Numbers.  Prices are integers.  Every derived JavaScript number         *)
(* (changePercent, magnitudeRatio, avgLag, avgMagnitude, followRate) is an *)
(* exact rational [num, den] in lowest terms with den > 0, so the model    *)
(* follows the arithmetic of the code without floating-point rounding.     *)
(* Time is Date.now() measured from process start.                         *)
(***************************************************************************)
EXTENDS Integers, Sequences, FiniteSets, TLC

VARIABLES
    marketData,       \* the engine state of alphaflow-server.js
    pendingUpdates,   \* price states waiting for the next batch_update
    clock,            \* Date.now()
    arrived,          \* history: per coin, every price processed so far
    created,          \* history: every leader event created so far
    reference,        \* marketData of an engine that prunes on every tick
    ticksLeft,        \* feed messages the behaviour may still deliver
    coinbaseWS,       \* the upstream socket: null, connecting, open, ...
    upstream,         \* history: sockets made, and those replaced unclosed
    startupTimer,     \* the setTimeout(connectToCoinbase, 5000) is pending
    reconnectTimeout, \* due time of the pending reconnect timer, or NoTimer
    shuttingDown,     \* the SIGINT handler has run
    proc,             \* the Node process: running, exited or crashed
    clients,          \* the set `clients` of dashboard connections
    readyState,       \* per dashboard connection: new, open, closing, closed
    inbox,            \* per dashboard connection, the messages sent to it
    batches,          \* history: the batch_update messages broadcast
    tickedSince,      \* history: coins ticked since the last broadcast timer
    lastSave,         \* outcome of the most recent saveData call
    afterShutdown,    \* history: what ran after the SIGINT handler
    lastResponse,     \* the most recent reply of the REST API
    state,            \* the state object of the browser page (script.js)
    runDisabled,      \* elements.runBacktest.disabled
    runs,             \* the runBacktest executions suspended at their await
    clicksLeft,       \* clicks on Run the behaviour may still make
    lastCall          \* history: how the latest runBacktest call went

engineVars == <<marketData, pendingUpdates, arrived, created, reference>>

serverVars == <<coinbaseWS, upstream, startupTimer, reconnectTimeout, shuttingDown, proc,
                clients, readyState, inbox, batches, lastSave, lastResponse>>

pageVars == <<state, runDisabled, runs, clicksLeft, lastCall>>

vars == <<marketData, pendingUpdates, clock, arrived, created, reference,
          ticksLeft,
          coinbaseWS, upstream, startupTimer, reconnectTimeout, shuttingDown,
          proc, clients, readyState, inbox, batches, tickedSince, lastSave,
          afterShutdown, lastResponse, state, runDisabled, runs, clicksLeft,
          lastCall>>

----------------------------------------------------------------------------
(* Bounds of the model *)

\* ticks processed in one behaviour after the initial state
MaxTicks == 2
\* ticks processed after the preloaded history of SpecHist
HistTicks == 2
\* clicks on the Run button of the browser page in one behaviour
MaxClicks == 3
\* yields of one backtest run: its events come in MaxChunks runs of up to
\* YIELD_EVERY events, each processed without a yield
MaxChunks == 2

----------------------------------------------------------------------------
(* Configuration *)

COINS == <<"A", "B", "C">>

CoinSet == {COINS[i] : i \in 1..Len(COINS)}

MOVE_THRESHOLD == 2
LAG_WINDOW == 300000
HISTORY_LIMIT == 1000
TOP_PAIRS == 20
DEFAULT_MIN_SAMPLES == 10

\* prices a ticker message may carry
Prices == {994, 1000, 1006, 1030}

\* values Date.now() takes while the model runs (ms since start)
Instants == {0, 100, 200, 300000}

----------------------------------------------------------------------------
(* Exact rational arithmetic standing for JavaScript numbers *)

Abs(x) == IF x < 0 THEN -x ELSE x

RECURSIVE GCD(_, _)
GCD(a, b) == IF b = 0 THEN a ELSE GCD(b, a % b)

\* n / d; a zero divisor gives a non-finite number (den = 0): Infinity,
\* -Infinity, or NaN when n is zero as well
Rat(n, d) ==
    IF d = 0
    THEN [num |-> IF n > 0 THEN 1 ELSE IF n < 0 THEN -1 ELSE 0, den |-> 0]
    ELSE LET g == GCD(Abs(n), Abs(d))
             s == IF d < 0 THEN -1 ELSE 1
         IN  [num |-> (s * n) \div g, den |-> (s * d) \div g]

\* the number NaN, as a derived number and as a price (parseFloat of a text
\* that is no number); no price or price difference of the model reaches it
NaNRat == [num |-> 0, den |-> 0]

NaN == -1000000000

IsNaN(r) == r.num = 0 /\ r.den = 0

Finite(r) == r.den # 0

Zero == [num |-> 0, den |-> 1]

RInt(n) == [num |-> n, den |-> 1]

RAbs(r) == [num |-> Abs(r.num), den |-> r.den]

\* a < b and a >= b: every comparison with NaN is false
RLess(a, b) == ~IsNaN(a) /\ ~IsNaN(b) /\ a.num * b.den < b.num * a.den

RGeq(a, b) == ~IsNaN(a) /\ ~IsNaN(b) /\ a.num * b.den >= b.num * a.den

RAdd(a, b) ==
    LET g == GCD(a.den, b.den)
        l == (a.den \div g) * b.den
    IN  Rat(a.num * (l \div a.den) + b.num * (l \div b.den), l)

RDiv(a, b) == Rat(a.num * b.den, a.den * b.num)

RECURSIVE RSum(_)
RSum(s) == IF s = <<>> THEN Zero ELSE RAdd(s[1], RSum(Tail(s)))

RECURSIVE ISum(_)
ISum(s) == IF s = <<>> THEN 0 ELSE s[1] + ISum(Tail(s))

\* the follower noise floor 0.005 and the best-pairs rate floor 0.6
FOLLOW_THRESHOLD == Rat(5, 1000)
RATE_FLOOR == Rat(6, 10)

----------------------------------------------------------------------------
(* initializeData *)

EmptyRelation ==
    [lagTimes |-> <<>>, magnitudeRatios |-> <<>>,
     successfulFollows |-> 0, missedFollows |-> 0,
     avgLag |-> Zero, avgMagnitude |-> Zero, followRate |-> Zero]

FollowersWithSelf(coin) == CoinSet

\* COINS.forEach(follower => { if (coin !== follower) ... })
Followers(coin) == CoinSet \ {coin}

initializeData ==
    [prices |-> [c \in CoinSet |->
                    [price |-> 0, change |-> 0, changePercent |-> Zero,
                     lastUpdate |-> 0]],
     priceHistory |-> [c \in CoinSet |-> <<>>],
     leaderEvents |-> <<>>,
     causalityMatrix |-> [c \in CoinSet |->
                            [f \in Followers(c) |-> EmptyRelation]],
     statistics |-> [totalTicks |-> 0, divergenceEvents |-> 0,
                     startTime |-> 0]]

----------------------------------------------------------------------------
(* processTickerUpdate *)

OldPriceStored(md, coin, price) == md.prices[coin].price

\* marketData.prices[coin].price || price: 0 and NaN are falsy
OldPrice(md, coin, price) ==
    IF md.prices[coin].price # 0 /\ md.prices[coin].price # NaN
    THEN md.prices[coin].price
    ELSE price

\* price - oldPrice
PriceChange(price, oldPrice) ==
    IF price = NaN \/ oldPrice = NaN THEN NaN ELSE price - oldPrice

ChangePercentUnguarded(md, coin, price) ==
    LET oldPrice == OldPrice(md, coin, price)
    IN  IF price = NaN \/ oldPrice = NaN THEN NaNRat
        ELSE Rat((price - oldPrice) * 100, oldPrice)

\* oldPrice > 0 ? (priceChange / oldPrice) * 100 : 0
ChangePercent(md, coin, price) ==
    LET oldPrice == OldPrice(md, coin, price)
    IN  IF oldPrice # NaN /\ oldPrice > 0
        THEN IF price = NaN THEN NaNRat
             ELSE Rat((price - oldPrice) * 100, oldPrice)
        ELSE Zero

PushHistoryDropNewest(history, price) ==
    LET h == Append(history, price)
    IN  IF Len(h) > HISTORY_LIMIT THEN SubSeq(h, 1, Len(h) - 1) ELSE h

PushHistory(history, price) ==
    LET h == Append(history, price)
    IN  IF Len(h) > HISTORY_LIMIT THEN Tail(h) ELSE h

IsLeaderMoveStrict(changePercent) ==
    RLess(RInt(MOVE_THRESHOLD), RAbs(changePercent))

IsLeaderMove(changePercent) == RGeq(RAbs(changePercent), RInt(MOVE_THRESHOLD))

NewLeaderEvent(coin, price, changePercent, timestamp) ==
    [timestamp |-> timestamp, leader |-> coin, price |-> price,
     changePercent |-> changePercent,
     direction |-> IF changePercent.num > 0 THEN "pump" ELSE "dump",
     followersResponded |-> <<>>]

CleanOldEventsNone(events, timestamp) == events

CleanOldEventsKeepExpired(events, timestamp) ==
    SelectSeq(events, LAMBDA e : timestamp - e.timestamp >= LAG_WINDOW)

CleanOldEvents(events, timestamp) ==
    SelectSeq(events, LAMBDA e : timestamp - e.timestamp < LAG_WINDOW)

QualifiesAnyMove(lagTime, changePercent) == lagTime < LAG_WINDOW

QualifiesAnyLag(lagTime, changePercent) ==
    RGeq(RAbs(changePercent), FOLLOW_THRESHOLD)

Qualifies(lagTime, changePercent) ==
    lagTime < LAG_WINDOW /\ RGeq(RAbs(changePercent), FOLLOW_THRESHOLD)

SameDirection(changePercent, leaderChange) ==
    \/ changePercent.num > 0 /\ leaderChange.num > 0
    \/ changePercent.num < 0 /\ leaderChange.num < 0

MagnitudeRatioInverted(changePercent, leaderChange) ==
    RAbs(RDiv(leaderChange, changePercent))

MagnitudeRatio(changePercent, leaderChange) ==
    RAbs(RDiv(changePercent, leaderChange))

FollowRateInverted(successfulFollows, missedFollows) ==
    Rat(successfulFollows + missedFollows, successfulFollows)

FollowRate(successfulFollows, missedFollows) ==
    Rat(successfulFollows, successfulFollows + missedFollows)

RecordSuccessRunningMean(rel, lagTime, magnitudeRatio) ==
    [lagTimes |-> Append(rel.lagTimes, lagTime),
     magnitudeRatios |-> Append(rel.magnitudeRatios, magnitudeRatio),
     successfulFollows |-> rel.successfulFollows + 1,
     missedFollows |-> rel.missedFollows,
     avgLag |-> IF rel.lagTimes = <<>> THEN RInt(lagTime)
                ELSE RDiv(RAdd(rel.avgLag, RInt(lagTime)), RInt(2)),
     avgMagnitude |-> IF rel.magnitudeRatios = <<>> THEN magnitudeRatio
                      ELSE RDiv(RAdd(rel.avgMagnitude, magnitudeRatio),
                                RInt(2)),
     followRate |-> FollowRate(rel.successfulFollows + 1, rel.missedFollows)]

RecordSuccess(rel, lagTime, magnitudeRatio) ==
    LET lagTimes == Append(rel.lagTimes, lagTime)
        magnitudeRatios == Append(rel.magnitudeRatios, magnitudeRatio)
        successfulFollows == rel.successfulFollows + 1
    IN  [lagTimes |-> lagTimes,
         magnitudeRatios |-> magnitudeRatios,
         successfulFollows |-> successfulFollows,
         missedFollows |-> rel.missedFollows,
         avgLag |-> Rat(ISum(lagTimes), Len(lagTimes)),
         avgMagnitude |-> RDiv(RSum(magnitudeRatios), RInt(Len(magnitudeRatios))),
         followRate |-> FollowRate(successfulFollows, rel.missedFollows)]

RecordMissUncounted(rel, lagTime) == rel

RecordMissAsSuccess(rel, lagTime) ==
    [rel EXCEPT !.successfulFollows = @ + 1]

RecordMissWithLag(rel, lagTime) ==
    [rel EXCEPT !.missedFollows = @ + 1, !.lagTimes = Append(@, lagTime)]

RecordMiss(rel, lagTime) ==
    [rel EXCEPT !.missedFollows = @ + 1]

Respond(followersResponded, coin, response) ==
    [c \in DOMAIN followersResponded \cup {coin} |->
        IF c = coin THEN response ELSE followersResponded[c]]

IsOwnEventNever(leaderEvent, coin) == FALSE

IsOwnEventOrResponded(leaderEvent, coin) ==
    \/ leaderEvent.leader = coin
    \/ coin \in DOMAIN leaderEvent.followersResponded

\* if (leaderEvent.leader === coin) return;
IsOwnEvent(leaderEvent, coin) == leaderEvent.leader = coin

\* the body of leaderEvents.forEach for the event at index i;
\* st = [events, matrix, divergenceEvents]
FollowerCheck(st, i, coin, changePercent, timestamp) ==
    LET leaderEvent == st.events[i]
        lagTime == timestamp - leaderEvent.timestamp
    IN  IF IsOwnEvent(leaderEvent, coin) \/ ~Qualifies(lagTime, changePercent)
        THEN st
        ELSE IF SameDirection(changePercent, leaderEvent.changePercent)
        THEN LET magnitudeRatio ==
                     MagnitudeRatio(changePercent, leaderEvent.changePercent)
                 response == [lagTime |-> lagTime,
                              changePercent |-> changePercent,
                              magnitudeRatio |-> magnitudeRatio]
             IN  [events |-> [st.events EXCEPT ![i].followersResponded =
                                  Respond(@, coin, response)],
                  matrix |-> [st.matrix EXCEPT ![leaderEvent.leader][coin] =
                                  RecordSuccess(@, lagTime, magnitudeRatio)],
                  divergenceEvents |-> st.divergenceEvents]
        ELSE [events |-> st.events,
              matrix |-> [st.matrix EXCEPT ![leaderEvent.leader][coin] =
                              RecordMiss(@, lagTime)],
              divergenceEvents |-> st.divergenceEvents + 1]

CountTickTwice(totalTicks) == totalTicks + 2

\* marketData.statistics.totalTicks++
CountTick(totalTicks) == totalTicks + 1

RECURSIVE FollowerLoop(_, _, _, _, _)
FollowerLoop(st, i, coin, changePercent, timestamp) ==
    IF i > Len(st.events) THEN st
    ELSE FollowerLoop(FollowerCheck(st, i, coin, changePercent, timestamp),
                      i + 1, coin, changePercent, timestamp)

\* s = [marketData, pendingUpdates, arrived, created]; the result has the
\* same shape
processTickerUpdate(s, coin, price, timestamp) ==
    LET md == s.marketData
        oldPrice == OldPrice(md, coin, price)
        priceChange == PriceChange(price, oldPrice)
        changePercent == ChangePercent(md, coin, price)
        priceState == [price |-> price, change |-> priceChange,
                       changePercent |-> changePercent,
                       lastUpdate |-> timestamp]
        leader == IsLeaderMove(changePercent)
        leaderEvent == NewLeaderEvent(coin, price, changePercent, timestamp)
        events == IF leader
                  THEN CleanOldEvents(Append(md.leaderEvents, leaderEvent),
                                      timestamp)
                  ELSE md.leaderEvents
        done == FollowerLoop([events |-> events,
                              matrix |-> md.causalityMatrix,
                              divergenceEvents |-> md.statistics.divergenceEvents],
                             1, coin, changePercent, timestamp)
    IN  [marketData |->
            [prices |-> [md.prices EXCEPT ![coin] = priceState],
             priceHistory |-> [md.priceHistory EXCEPT ![coin] =
                                   PushHistory(@, price)],
             leaderEvents |-> done.events,
             causalityMatrix |-> done.matrix,
             statistics |-> [totalTicks |-> CountTick(md.statistics.totalTicks),
                             divergenceEvents |-> done.divergenceEvents,
                             startTime |-> md.statistics.startTime]],
         pendingUpdates |-> [c \in DOMAIN s.pendingUpdates \cup {coin} |->
                                IF c = coin THEN priceState
                                ELSE s.pendingUpdates[c]],
         arrived |-> [s.arrived EXCEPT ![coin] = Append(@, price)],
         created |-> IF leader
                     THEN Append(s.created, [leader |-> coin,
                                             timestamp |-> timestamp,
                                             changePercent |-> changePercent])
                     ELSE s.created]

----------------------------------------------------------------------------
(* Query/Export surface: pure reads of marketData *)

\* ordered pairs in the order of the nested Object.keys(...).forEach loops
RECURSIVE PairsFrom(_, _)
PairsFrom(i, j) ==
    IF i > Len(COINS) THEN <<>>
    ELSE IF j > Len(COINS) THEN PairsFrom(i + 1, 1)
    ELSE IF i = j THEN PairsFrom(i, j + 1)
    ELSE <<[leader |-> COINS[i], follower |-> COINS[j]]>> \o PairsFrom(i, j + 1)

PairOrder == PairsFrom(1, 1)

\* Number.prototype.toFixed(digits) of a non-negative number, as the integer
\* number of units of 10^-digits it prints (round half up)
ToFixed(r, digits) ==
    LET scale == IF digits = 0 THEN 1 ELSE 1000
        q == (r.num * scale) \div r.den
        rest == (r.num * scale) % r.den
    IN  IF 2 * rest >= r.den THEN q + 1 ELSE q

MatrixSnapshotOfTried(md) ==
    [leader \in CoinSet |->
        [follower \in {f \in CoinSet \ {leader} :
                          md.causalityMatrix[leader][f].successfulFollows
                        + md.causalityMatrix[leader][f].missedFollows > 0} |->
            LET rel == md.causalityMatrix[leader][follower]
            IN  [followRate |-> rel.followRate,
                 avgLag |-> rel.avgLag,
                 avgMagnitude |-> rel.avgMagnitude,
                 sampleSize |-> Len(rel.lagTimes)]]]

\* GET /api/causality/matrix
MatrixSnapshot(md) ==
    [leader \in CoinSet |->
        [follower \in {f \in CoinSet \ {leader} :
                          md.causalityMatrix[leader][f].successfulFollows > 0} |->
            LET rel == md.causalityMatrix[leader][follower]
            IN  [followRate |-> rel.followRate,
                 avgLag |-> rel.avgLag,
                 avgMagnitude |-> rel.avgMagnitude,
                 sampleSize |-> Len(rel.lagTimes)]]]

\* a request's minSamples query parameter: absent, or an integer
NoParam == [given |-> FALSE, value |-> 0]
Param(n) == [given |-> TRUE, value |-> n]
Queries == {NoParam} \cup {Param(n) : n \in {0, 1, 2, 3, 10}}

\* parseInt(req.query.minSamples) || 10
MinSampleSize(q) ==
    IF q.given /\ q.value # 0 THEN q.value ELSE DEFAULT_MIN_SAMPLES

PairEntry(md, p) ==
    LET rel == md.causalityMatrix[p.leader][p.follower]
    IN  [leader |-> p.leader, follower |-> p.follower,
         followRate |-> rel.followRate,
         avgLag |-> rel.avgLag,
         avgMagnitude |-> rel.avgMagnitude,
         sampleSize |-> Len(rel.lagTimes),
         successfulFollows |-> rel.successfulFollows,
         missedFollows |-> rel.missedFollows]

\* pairs.sort((a, b) => b.followRate - a.followRate), a stable sort
RECURSIVE InsertByRate(_, _)
InsertByRate(sorted, x) ==
    IF sorted = <<>> THEN <<x>>
    ELSE IF RLess(sorted[1].followRate, x.followRate)
    THEN <<x>> \o sorted
    ELSE <<sorted[1]>> \o InsertByRate(Tail(sorted), x)

RECURSIVE SortByRate(_)
SortByRate(pairs) ==
    IF pairs = <<>> THEN <<>>
    ELSE InsertByRate(SortByRate(SubSeq(pairs, 1, Len(pairs) - 1)),
                      pairs[Len(pairs)])

Selected(md, p, minSampleSize) ==
    LET rel == md.causalityMatrix[p.leader][p.follower]
    IN  /\ rel.successfulFollows + rel.missedFollows >= minSampleSize
        /\ RLess(RATE_FLOOR, rel.followRate)

\* GET /api/causality/best-pairs
BestPairs(md, q) ==
    LET minSampleSize == MinSampleSize(q)
        chosen == SelectSeq(PairOrder,
                            LAMBDA p : Selected(md, p, minSampleSize))
        pairs == SortByRate([i \in 1..Len(chosen) |-> PairEntry(md, chosen[i])])
    IN  [pairs |-> SubSeq(pairs, 1, IF Len(pairs) < TOP_PAIRS
                                    THEN Len(pairs) ELSE TOP_PAIRS),
         totalPairsAnalyzed |-> Len(pairs)]

CsvRow(md, p) ==
    LET rel == md.causalityMatrix[p.leader][p.follower]
    IN  [leader |-> p.leader, follower |-> p.follower,
         successfulFollows |-> rel.successfulFollows,
         missedFollows |-> rel.missedFollows,
         followRate |-> ToFixed(rel.followRate, 3),
         avgLag |-> ToFixed(rel.avgLag, 0),
         avgMagnitude |-> ToFixed(rel.avgMagnitude, 3),
         sampleSize |-> Len(rel.lagTimes)]

CsvExportOfFollowed(md) ==
    LET listed == SelectSeq(PairOrder, LAMBDA p :
                     md.causalityMatrix[p.leader][p.follower].successfulFollows
                        > 0)
    IN  [i \in 1..Len(listed) |-> CsvRow(md, listed[i])]

\* GET /api/export/csv: the rows after the header line
CsvExport(md) ==
    LET listed == SelectSeq(PairOrder, LAMBDA p :
                     md.causalityMatrix[p.leader][p.follower].successfulFollows
                   + md.causalityMatrix[p.leader][p.follower].missedFollows > 0)
    IN  [i \in 1..Len(listed) |-> CsvRow(md, listed[i])]

----------------------------------------------------------------------------
(* Initial states *)

Fresh ==
    [marketData |-> initializeData,
     pendingUpdates |-> <<>>,
     arrived |-> [c \in CoinSet |-> <<>>],
     created |-> <<>>]

\* the engine after ticks[lo..hi], all received at time 0
RECURSIVE RunTicks(_, _, _, _)
RunTicks(s, ticks, lo, hi) ==
    IF lo > hi THEN s
    ELSE IF lo = hi
    THEN processTickerUpdate(s, ticks[lo].coin, ticks[lo].price, 0)
    ELSE LET mid == (lo + hi) \div 2
             half == RunTicks(s, ticks, lo, mid)
         IN  IF half.marketData.statistics.totalTicks >= 0
             THEN RunTicks(half, ticks, mid + 1, hi)
             ELSE half

\* every coin has received its first tick, at 1000
WarmTicks == [i \in 1..Len(COINS) |-> [coin |-> COINS[i], price |-> 1000]]

Warm == RunTicks(Fresh, WarmTicks, 1, Len(WarmTicks))

\* then A has made a leader move, 1000 -> 1030
LeaderTicks == <<[coin |-> "A", price |-> 1030]>>

Led == RunTicks(Warm, LeaderTicks, 1, Len(LeaderTicks))

\* coin A has received HISTORY_LIMIT - 1 ticks alternating 1000 and 1006
PreloadTicks ==
    [i \in 1..(HISTORY_LIMIT - 1) |->
        [coin |-> "A", price |-> IF i % 2 = 1 THEN 1000 ELSE 1006]]

Preloaded == RunTicks(Fresh, PreloadTicks, 1, Len(PreloadTicks))

NoTimer == -1

\* a request to the REST API: endpoint, :coin and ?minSamples
Request(endpoint, coin, q) == [endpoint |-> endpoint, coin |-> coin, q |-> q]

\* no request has been answered yet
NoResponse ==
    [request |-> Request("none", "", NoParam), at |-> 0, again |-> FALSE,
     reply |-> [status |-> 0]]

\* dashboard connections of one behaviour
MaxClients == 1
ClientIds == 1..MaxClients

YIELD_EVERY == 100

\* values state.data takes: null, an array of events, an array with a null
\* element, or a JSON value that is no array.  An array is given by its
\* events that pass the filter of runBacktest, in runs of up to YIELD_EVERY
\* events, each run by the number of trades its events execute.
NoData == [kind |-> "null", chunks |-> <<>>]
Holed == [kind |-> "holed", chunks |-> <<>>]
NoArray == [kind |-> "object", chunks |-> <<>>]
Array(chunks) == [kind |-> "array", chunks |-> chunks]

RECURSIVE ChunkSeqs(_)
ChunkSeqs(n) ==
    IF n = 0 THEN {<<>>}
    ELSE ChunkSeqs(n - 1)
            \cup {Append(c, t) : c \in {d \in ChunkSeqs(n - 1) : Len(d) = n - 1},
                                 t \in {0, 1}}

Arrays == {Array(c) : c \in ChunkSeqs(MaxChunks)}

NoResults == [set |-> FALSE, totalTrades |-> 0]

\* the page of script.js as loaded: const state = {...}, no file chosen
PageLoaded ==
    /\ state = [data |-> NoData, backtestRunning |-> FALSE,
                results |-> NoResults, patternStats |-> 0,
                equityCurve |-> 0, tradeLog |-> 0]
    /\ runDisabled = TRUE
    /\ runs = <<>>
    /\ clicksLeft = MaxClicks
    /\ lastCall = "none"

\* the engine in state s while the feed is connected and nothing else has
\* happened yet
Start(s, budget) ==
    /\ marketData = s.marketData
    /\ pendingUpdates = s.pendingUpdates
    /\ arrived = s.arrived
    /\ created = s.created
    /\ reference = s.marketData
    /\ clock = 0
    /\ ticksLeft = budget
    /\ coinbaseWS = "open"
    /\ upstream = [made |-> 1, orphans |-> 0]
    /\ startupTimer = FALSE
    /\ reconnectTimeout = NoTimer
    /\ shuttingDown = FALSE
    /\ proc = "running"
    /\ clients = {}
    /\ readyState = [c \in ClientIds |-> "new"]
    /\ inbox = [c \in ClientIds |-> <<>>]
    /\ batches = <<>>
    /\ tickedSince = DOMAIN s.pendingUpdates
    /\ lastSave = "none"
    /\ afterShutdown = {}
    /\ lastResponse = NoResponse
    /\ PageLoaded

\* the engine as constructed, or as it is after the first ticks at time 0
Init ==
    \/ Start(Fresh, MaxTicks)
    \/ Start(Warm, MaxTicks)
    \/ Start(Led, MaxTicks)

InitHist == Start(Preloaded, HistTicks)

----------------------------------------------------------------------------
(* Actions *)

\* the engine the code is compared with: it runs the same tick processing
\* on a list from which the expired events are removed at every tick
ReferenceUpdate(md, coin, price, timestamp) ==
    processTickerUpdate(
        [marketData |-> [md EXCEPT !.leaderEvents =
                            SelectSeq(@, LAMBDA e :
                                timestamp - e.timestamp < LAG_WINDOW)],
         pendingUpdates |-> <<>>,
         arrived |-> [c \in CoinSet |-> <<>>],
         created |-> <<>>],
        coin, price, timestamp).marketData

\* coinbaseWS.on('message') delivering a ticker for a configured coin
Tick(coin, price) ==
    /\ proc = "running"
    /\ coinbaseWS \in {"open", "closing"}
    /\ ticksLeft > 0
    /\ LET r == processTickerUpdate(
                    [marketData |-> marketData,
                     pendingUpdates |-> pendingUpdates,
                     arrived |-> arrived, created |-> created],
                    coin, price, clock)
       IN  /\ marketData' = r.marketData
           /\ pendingUpdates' = r.pendingUpdates
           /\ arrived' = r.arrived
           /\ created' = r.created
    /\ reference' = ReferenceUpdate(reference, coin, price, clock)
    /\ ticksLeft' = ticksLeft - 1
    /\ tickedSince' = tickedSince \cup {coin}
    /\ afterShutdown' = IF shuttingDown THEN afterShutdown \cup {"tick"}
                        ELSE afterShutdown
    /\ UNCHANGED <<pageVars, clock, serverVars>>

\* time passes between two events
Advance(t) ==
    /\ t > clock
    /\ clock' = t
    /\ UNCHANGED <<pageVars, engineVars, ticksLeft, serverVars, tickedSince,
                   afterShutdown>>

Next ==
    \/ \E coin \in CoinSet, price \in Prices : Tick(coin, price)
    \/ \E t \in Instants : Advance(t)

Spec == Init /\ [][Next]_vars

SpecHist == InitHist /\ [][Next]_vars

\* the engine when A has moved up, down and up again within one instant:
\* three leader events of A, two pumps and a dump
MultiTicks ==
    WarmTicks \o <<[coin |-> "A", price |-> 1030],
                   [coin |-> "A", price |-> 1000],
                   [coin |-> "A", price |-> 1030]>>

Multi == RunTicks(Fresh, MultiTicks, 1, Len(MultiTicks))

InitMulti == Start(Multi, MaxTicks)

SpecMulti == InitMulti /\ [][Next]_vars

----------------------------------------------------------------------------
(* The feed's message handler for payloads of any shape *)

\* names every plain object inherits from Object.prototype
InheritedKeys == {"constructor"}

\* product ids a ticker may carry: a configured coin, an id that names
\* nothing, or the name of an inherited property
ProductIds == CoinSet \cup {"X"} \cup InheritedKeys

\* parseFloat(ticker.price): a number, or NaN when the field is missing or
\* is no number
FeedPrices == {1000, 1030, NaN}

\* a text that is not JSON
Garbage == [json |-> FALSE, type |-> "", product_id |-> "", price |-> NaN]

\* the feed's acknowledgement of the subscription
Subscriptions ==
    [json |-> TRUE, type |-> "subscriptions", product_id |-> "", price |-> NaN]

Ticker(id, price) ==
    [json |-> TRUE, type |-> "ticker", product_id |-> id, price |-> price]

Messages ==
    {Garbage, Subscriptions}
        \cup {Ticker(id, price) : id \in ProductIds, price \in FeedPrices}

\* processTickerUpdate for an id that has no history array.  Reading
\* marketData.prices[coin].price throws when prices[coin] is undefined; when
\* prices[coin] is an own or an inherited property, the price state is
\* assigned and marketData.priceHistory[coin].push throws.  Either way the
\* caller's catch ends the handler.
TickerOfUnlistedId(s, coin, price, timestamp) ==
    LET md == s.marketData
        own == coin \in DOMAIN md.prices
    IN  IF ~own /\ coin \notin InheritedKeys
        THEN s
        ELSE LET found == [prices |-> [c \in {coin} |->
                              [price |-> IF own THEN md.prices[coin].price
                                         ELSE 0]]]
                 oldPrice == OldPrice(found, coin, price)
                 priceState == [price |-> price,
                                change |-> PriceChange(price, oldPrice),
                                changePercent |->
                                    ChangePercent(found, coin, price),
                                lastUpdate |-> timestamp]
             IN  [s EXCEPT !.marketData.prices =
                     [c \in DOMAIN md.prices \cup {coin} |->
                         IF c = coin THEN priceState ELSE md.prices[c]]]

\* a ticker the handler processes to the end
Accepted(msg) ==
    msg.json /\ msg.type = "ticker" /\ msg.product_id \in CoinSet

\* the body of coinbaseWS.on('message'): try { JSON.parse; if ticker then
\* processTickerUpdate } catch { log }
onMessage(s, msg, timestamp) ==
    IF ~msg.json THEN s
    ELSE IF msg.type # "ticker" THEN s
    ELSE IF msg.product_id \in CoinSet
    THEN processTickerUpdate(s, msg.product_id, msg.price, timestamp)
    ELSE TickerOfUnlistedId(s, msg.product_id, msg.price, timestamp)

Message(msg) ==
    /\ proc = "running"
    /\ coinbaseWS \in {"open", "closing"}
    /\ ticksLeft > 0
    /\ LET r == onMessage([marketData |-> marketData,
                           pendingUpdates |-> pendingUpdates,
                           arrived |-> arrived, created |-> created],
                          msg, clock)
       IN  /\ marketData' = r.marketData
           /\ pendingUpdates' = r.pendingUpdates
           /\ arrived' = r.arrived
           /\ created' = r.created
    /\ reference' = IF Accepted(msg)
                     THEN ReferenceUpdate(reference, msg.product_id,
                                          msg.price, clock)
                     ELSE reference
    /\ ticksLeft' = ticksLeft - 1
    /\ tickedSince' = IF Accepted(msg)
                      THEN tickedSince \cup {msg.product_id}
                      ELSE tickedSince
    /\ afterShutdown' = IF shuttingDown /\ Accepted(msg)
                        THEN afterShutdown \cup {"tick"}
                        ELSE afterShutdown
    /\ UNCHANGED <<pageVars, clock, serverVars>>

InitFeed ==
    \/ Start(Fresh, MaxTicks)
    \/ Start(Warm, MaxTicks)

NextFeed ==
    \/ \E msg \in Messages : Message(msg)
    \/ \E t \in Instants : Advance(t)

SpecFeed == InitFeed /\ [][NextFeed]_vars

----------------------------------------------------------------------------
(* Tickers whose price may be zero *)

ZeroPrices == {0, 1000, 1030}

InitZero ==
    \/ Start(Fresh, MaxTicks)
    \/ Start(Led, MaxTicks)

NextZero ==
    \/ \E coin \in CoinSet, price \in ZeroPrices : Tick(coin, price)
    \/ \E t \in Instants : Advance(t)

SpecZero == InitZero /\ [][NextZero]_vars

----------------------------------------------------------------------------
(* Tickers whose moves are exactly MOVE_THRESHOLD percent *)

\* from 1000, the prices 1020 and 980 are moves of exactly 2 and -2 percent;
\* from 1020 back to 1000 is a move of less than 2 percent
EdgePrices == {980, 1000, 1020}

InitEdge == Start(Warm, MaxTicks)

NextEdge ==
    \/ \E coin \in CoinSet, price \in EdgePrices : Tick(coin, price)
    \/ \E t \in Instants : Advance(t)

SpecEdge == InitEdge /\ [][NextEdge]_vars

----------------------------------------------------------------------------
(* The server around the engine: feed connection, timers, dashboard        *)
(* clients, persistence and shutdown                                       *)

RECONNECT_DELAY == 3000

\* the tickers delivered while broadcasts are explored
CastCoins == {"A", "B"}
CastPrices == {1000, 1030}
CastInstants == {100}

\* the tickers delivered while the server's life cycle is explored
LifeCoins == {"A"}
LifePrices == {1000, 1030}

\* connectToCoinbase: a new socket replaces coinbaseWS; the socket it
\* replaces is not closed by this and, unless closed before, lives on
Connect ==
    /\ coinbaseWS' = "connecting"
    /\ upstream' =
          [made |-> upstream.made + 1,
           orphans |-> IF coinbaseWS \in {"connecting", "open", "closing"}
                       THEN upstream.orphans + 1
                       ELSE upstream.orphans]
    /\ afterShutdown' = IF shuttingDown THEN afterShutdown \cup {"connect"}
                        ELSE afterShutdown

\* the timer set in the server.listen callback fires
StartupTimer ==
    /\ proc = "running"
    /\ startupTimer
    /\ startupTimer' = FALSE
    /\ Connect
    /\ UNCHANGED <<pageVars, engineVars, clock, ticksLeft, reconnectTimeout, shuttingDown,
                   proc, clients, readyState, inbox, batches, tickedSince, lastSave,
                   lastResponse>>

\* coinbaseWS.on('open'): the subscription is sent
FeedOpen ==
    /\ proc = "running"
    /\ coinbaseWS = "connecting"
    /\ coinbaseWS' = "open"
    /\ UNCHANGED <<pageVars, engineVars, clock, ticksLeft, upstream, startupTimer, reconnectTimeout,
                   shuttingDown, proc, clients, readyState, inbox, batches, tickedSince,
                   lastSave, afterShutdown, lastResponse>>

\* coinbaseWS.on('close'), after a failed connection attempt, a connection
\* lost or a close of our own: clearTimeout, then setTimeout(connect, 3000).
\* The socket closes at instants whose timer falls due within Instants.
FeedClose ==
    /\ proc = "running"
    /\ coinbaseWS \in {"connecting", "open", "closing"}
    /\ \E t \in Instants : t >= clock + RECONNECT_DELAY
    /\ coinbaseWS' = "closed"
    /\ reconnectTimeout' = clock + RECONNECT_DELAY
    /\ UNCHANGED <<pageVars, engineVars, clock, ticksLeft, upstream, startupTimer, shuttingDown,
                   proc, clients, readyState, inbox, batches, tickedSince, lastSave,
                   afterShutdown, lastResponse>>

AfterFiringRepeats(due) == due

\* setTimeout: the timer fires once
AfterFiring(due) == NoTimer

\* the reconnect timer fires, not before it is due
ReconnectTimer ==
    /\ proc = "running"
    /\ reconnectTimeout # NoTimer
    /\ clock >= reconnectTimeout
    /\ reconnectTimeout' = AfterFiring(reconnectTimeout)
    /\ Connect
    /\ UNCHANGED <<pageVars, engineVars, clock, ticksLeft, startupTimer, shuttingDown, proc,
                   clients, readyState, inbox, batches, tickedSince, lastSave, lastResponse>>

InitialState ==
    [type |-> "initial_state", prices |-> marketData.prices,
     leaderEvents |-> marketData.leaderEvents,
     statistics |-> marketData.statistics, coinConfig |-> COINS]

\* wss.on('connection'): clients.add(ws), then the initial_state is sent
ClientConnect(c) ==
    /\ proc = "running"
    /\ ~shuttingDown
    /\ readyState[c] = "new"
    /\ readyState' = [readyState EXCEPT ![c] = "open"]
    /\ clients' = clients \cup {c}
    /\ inbox' = [inbox EXCEPT ![c] = Append(@, InitialState)]
    /\ UNCHANGED <<pageVars, engineVars, clock, ticksLeft, upstream, coinbaseWS, startupTimer,
                   reconnectTimeout, shuttingDown, proc, batches, tickedSince,
                   lastSave, afterShutdown, lastResponse>>

\* a dashboard connection starts to close: its readyState is no longer OPEN
\* while its 'close' event is still to come
ClientClosing(c) ==
    /\ proc = "running"
    /\ readyState[c] = "open"
    /\ readyState' = [readyState EXCEPT ![c] = "closing"]
    /\ UNCHANGED <<pageVars, engineVars, clock, ticksLeft, upstream, coinbaseWS, startupTimer,
                   reconnectTimeout, shuttingDown, proc, clients, inbox,
                   batches, tickedSince, lastSave, afterShutdown,
                   lastResponse>>

\* ws.on('close') of a dashboard client: clients.delete(ws); a closing
\* server emits 'close', whose listener calls process.exit(0), when its
\* last connection has gone
ClientClose(c) ==
    /\ proc = "running"
    /\ readyState[c] \in {"open", "closing"}
    /\ readyState' = [readyState EXCEPT ![c] = "closed"]
    /\ clients' = clients \ {c}
    /\ proc' = IF /\ shuttingDown
                  /\ \A d \in ClientIds \ {c} :
                        readyState[d] \notin {"open", "closing"}
               THEN "exited" ELSE proc
    /\ UNCHANGED <<pageVars, engineVars, clock, ticksLeft, upstream, coinbaseWS, startupTimer,
                   reconnectTimeout, shuttingDown, inbox, batches, tickedSince,
                   lastSave, afterShutdown, lastResponse>>

BatchUpdate ==
    [type |-> "batch_update", updates |-> pendingUpdates, timestamp |-> clock,
     leaderEvents |-> Len(marketData.leaderEvents)]

BroadcastToAll(boxes, message) ==
    [c \in ClientIds |->
        IF c \in clients THEN Append(boxes[c], message) ELSE boxes[c]]

\* broadcastToClients
Broadcast(boxes, message) ==
    [c \in ClientIds |->
        IF c \in clients /\ readyState[c] = "open"
        THEN Append(boxes[c], message)
        ELSE boxes[c]]

AfterBroadcastKeep(pending) == pending

\* pendingUpdates = {}
AfterBroadcast(pending) == <<>>

\* the callback of setInterval(..., BROADCAST_INTERVAL)
BroadcastTimer ==
    /\ proc = "running"
    /\ IF DOMAIN pendingUpdates # {}
       THEN /\ inbox' = Broadcast(inbox, BatchUpdate)
            /\ batches' = Append(batches, BatchUpdate)
            /\ pendingUpdates' = AfterBroadcast(pendingUpdates)
       ELSE UNCHANGED <<inbox, batches, pendingUpdates>>
    /\ tickedSince' = {}
    /\ UNCHANGED <<pageVars, marketData, arrived, created, reference, clock, ticksLeft, upstream,
                   coinbaseWS,
                   startupTimer, reconnectTimeout, shuttingDown, proc, clients, readyState,
                   lastSave, afterShutdown, lastResponse>>

\* what the file system does to one saveData call: whether the dump is
\* written and renamed, and whether listing, stat-ing and deleting old dumps
\* goes through
SaveOutcomes == [wrote : BOOLEAN, cleaned : BOOLEAN]

\* saveData(skipCleanup): a failed write or rename is caught and logged; the
\* cleanup runs outside the try and its exception leaves saveData
saveData(skipCleanup, outcome) ==
    [lastSave |-> IF outcome.wrote THEN "written" ELSE "failed",
     threw |-> ~skipCleanup /\ ~outcome.cleaned]

\* the callback of setInterval(saveData, SAVE_INTERVAL); an exception that
\* leaves a timer callback is uncaught and ends the process
SaveTimer(outcome) ==
    /\ proc = "running"
    /\ LET r == saveData(FALSE, outcome)
       IN  /\ lastSave' = r.lastSave
           /\ proc' = IF r.threw THEN "crashed" ELSE proc
    /\ UNCHANGED <<pageVars, engineVars, clock, ticksLeft, upstream, coinbaseWS, startupTimer,
                   reconnectTimeout, shuttingDown, clients, readyState, inbox, batches,
                   tickedSince, afterShutdown, lastResponse>>

\* process.on('SIGINT'): saveData(true), coinbaseWS.close(), wss.close(exit);
\* the closing server emits 'close' at once when it has no client
Sigint(outcome) ==
    /\ proc = "running"
    /\ ~shuttingDown
    /\ shuttingDown' = TRUE
    /\ lastSave' = saveData(TRUE, outcome).lastSave
    /\ coinbaseWS' = IF coinbaseWS \in {"connecting", "open"} THEN "closing"
                     ELSE coinbaseWS
    /\ proc' = IF \A c \in ClientIds : readyState[c] \notin {"open", "closing"}
               THEN "exited"
               ELSE proc
    /\ UNCHANGED <<pageVars, engineVars, clock, ticksLeft, upstream, startupTimer, reconnectTimeout,
                   clients, readyState, inbox, batches, tickedSince, afterShutdown,
                   lastResponse>>

\* the server as it starts to listen
InitLife ==
    /\ marketData = initializeData
    /\ pendingUpdates = <<>>
    /\ arrived = [c \in CoinSet |-> <<>>]
    /\ created = <<>>
    /\ reference = initializeData
    /\ clock = 0
    /\ ticksLeft = MaxTicks
    /\ coinbaseWS = "null"
    /\ upstream = [made |-> 0, orphans |-> 0]
    /\ startupTimer = TRUE
    /\ reconnectTimeout = NoTimer
    /\ shuttingDown = FALSE
    /\ proc = "running"
    /\ clients = {}
    /\ readyState = [c \in ClientIds |-> "new"]
    /\ inbox = [c \in ClientIds |-> <<>>]
    /\ batches = <<>>
    /\ tickedSince = {}
    /\ lastSave = "none"
    /\ afterShutdown = {}
    /\ lastResponse = NoResponse
    /\ PageLoaded

\* feed connection, reconnects, persistence and shutdown
NextLife ==
    \/ \E coin \in LifeCoins, price \in LifePrices : Tick(coin, price)
    \/ \E t \in Instants : Advance(t)
    \/ StartupTimer
    \/ FeedOpen
    \/ FeedClose
    \/ ReconnectTimer
    \/ \E c \in ClientIds : ClientConnect(c)
    \/ \E c \in ClientIds : ClientClosing(c)
    \/ \E c \in ClientIds : ClientClose(c)
    \/ \E outcome \in SaveOutcomes : SaveTimer(outcome)
    \/ \E outcome \in SaveOutcomes : Sigint(outcome)

SpecLife == InitLife /\ [][NextLife]_vars

\* the timers fire and time passes as long as the process runs
SpecLifeFair ==
    /\ SpecLife
    /\ WF_vars(ReconnectTimer)
    /\ WF_vars(\E t \in Instants : Advance(t))

\* the feed connection alone: its timers, its socket events, the tickers it
\* delivers, dashboard connections that keep the process alive after SIGINT
NextLink ==
    \/ \E coin \in LifeCoins, price \in LifePrices : Tick(coin, price)
    \/ \E t \in Instants : Advance(t)
    \/ StartupTimer
    \/ FeedOpen
    \/ FeedClose
    \/ ReconnectTimer
    \/ \E c \in ClientIds : ClientConnect(c)
    \/ \E outcome \in SaveOutcomes : Sigint(outcome)

SpecLink == InitLife /\ [][NextLink]_vars

InitCast == Start(Fresh, MaxTicks)

\* ticks, dashboard clients and the broadcast timer
NextCast ==
    \/ \E coin \in CastCoins, price \in CastPrices : Tick(coin, price)
    \/ \E c \in ClientIds : ClientConnect(c)
    \/ \E c \in ClientIds : ClientClosing(c)
    \/ \E c \in ClientIds : ClientClose(c)
    \/ BroadcastTimer

SpecCast == InitCast /\ [][NextCast]_vars

----------------------------------------------------------------------------
(* The REST API *)

HISTORY_POINTS == 100

Requests ==
    {Request("prices", "", NoParam),
     Request("history", "A", NoParam),
     Request("history", "X", NoParam),
     Request("history", "constructor", NoParam),
     Request("matrix", "", NoParam),
     Request("best-pairs", "", NoParam),
     Request("best-pairs", "", Param(1)),
     Request("csv", "", NoParam)}

\* GET /api/market/prices
PricesReply(md, now) ==
    [status |-> 200, timestamp |-> now, prices |-> md.prices,
     statistics |-> md.statistics]

\* GET /api/market/history/:coin: priceHistory is a plain object, so the
\* name of an inherited property passes the truthiness test and the call of
\* its missing slice method throws, which Express answers with status 500
HistoryReply(md, coin) ==
    IF coin \in DOMAIN md.priceHistory
    THEN LET h == md.priceHistory[coin]
             n == IF Len(h) < HISTORY_POINTS THEN Len(h) ELSE HISTORY_POINTS
         IN  [status |-> 200, coin |-> coin,
              history |-> SubSeq(h, Len(h) - n + 1, Len(h))]
    ELSE IF coin \in InheritedKeys
         THEN [status |-> 500]
         ELSE [status |-> 404]

MatrixReplyStamped(md, now) ==
    [status |-> 200, timestamp |-> now, matrix |-> MatrixSnapshot(md),
     leaderEvents |-> md.leaderEvents]

\* GET /api/causality/matrix
MatrixReply(md, now) ==
    [status |-> 200, matrix |-> MatrixSnapshot(md),
     leaderEvents |-> md.leaderEvents]

\* the handler of a request, run on marketData at time now
Reply(req, md, now) ==
    CASE req.endpoint = "prices" -> PricesReply(md, now)
      [] req.endpoint = "history" -> HistoryReply(md, req.coin)
      [] req.endpoint = "matrix" -> MatrixReply(md, now)
      [] req.endpoint = "best-pairs" ->
            [status |-> 200, pairs |-> BestPairs(md, req.q).pairs,
             totalPairsAnalyzed |-> BestPairs(md, req.q).totalPairsAnalyzed]
      [] req.endpoint = "csv" -> [status |-> 200, rows |-> CsvExport(md)]

\* an HTTP request is served; `again` records that the previous request
\* served was the same and no tick has been processed since
Query(req) ==
    /\ proc = "running"
    /\ lastResponse' =
          [request |-> req,
           at |-> marketData.statistics.totalTicks,
           again |-> /\ lastResponse.request = req
                     /\ lastResponse.at = marketData.statistics.totalTicks,
           reply |-> Reply(req, marketData, clock)]
    /\ UNCHANGED <<pageVars, engineVars, clock, ticksLeft, upstream, coinbaseWS, startupTimer,
                   reconnectTimeout, shuttingDown, proc, clients, readyState, inbox,
                   batches, tickedSince, lastSave, afterShutdown>>

InitRead ==
    \/ Start(Warm, MaxTicks)
    \/ Start(Led, MaxTicks)

\* ticks and HTTP requests
NextRead ==
    \/ \E coin \in CastCoins, price \in CastPrices : Tick(coin, price)
    \/ \E t \in CastInstants : Advance(t)
    \/ \E req \in Requests : Query(req)

SpecRead == InitRead /\ [][NextRead]_vars

----------------------------------------------------------------------------
(* The browser page: file upload and the backtest run *)

\* the files a user may choose: a CSV file, a JSON file holding an array of
\* events, an array with a null element or a value that is no array, and a
\* file of another format or with unparseable JSON
Files ==
    [format : {"csv", "json"}, content : Arrays]
        \cup [format : {"json"}, content : {Holed, NoArray}]
        \cup [format : {"other"}, content : {NoData}]

\* reader.onload of handleFileUpload: state.data is assigned first; for a
\* value without length, updateFileList throws and the catch reports an
\* error, with state.data assigned and the button as it was
Upload(file) ==
    /\ IF file.format = "other"
       THEN UNCHANGED <<state, runDisabled>>
       ELSE /\ state' = [state EXCEPT !.data = file.content]
            /\ runDisabled' = IF file.content.kind = "object"
                              THEN runDisabled ELSE FALSE
    /\ UNCHANGED <<engineVars, clock, ticksLeft, tickedSince, afterShutdown,
                   serverVars, runs, clicksLeft, lastCall>>

BlockedWithoutData(st) == st.data.kind = "null"

\* if (!state.data || state.backtestRunning) return;
Blocked(st) == st.data.kind = "null" \/ st.backtestRunning

\* the reset at the head of runBacktest, with the push of the starting
\* capital onto the equity curve
Reset(st) ==
    [st EXCEPT !.backtestRunning = TRUE, !.results = NoResults,
               !.patternStats = 0, !.equityCurve = 1, !.tradeLog = 0]

\* the tail of runBacktest: state.results is set and backtestRunning cleared
Finish(st) ==
    [st EXCEPT !.results = [set |-> TRUE, totalTrades |-> st.tradeLog],
               !.backtestRunning = FALSE]

\* the loop body over one run of events without a yield: each trade is
\* pushed onto the equity curve and the trade log and counted in patternStats
Process(st, trades) ==
    [st EXCEPT !.equityCurve = @ + trades, !.tradeLog = @ + trades,
               !.patternStats = @ + trades]

\* a click on the Run button calls runBacktest, which runs to its first
\* await: it returns at the guard, or resets the state and filters
\* state.data, which throws for a value without filter and for a null
\* element, or finishes at once when no event passes the filter, or yields
\* before its first event
Click ==
    /\ ~runDisabled
    /\ clicksLeft > 0
    /\ clicksLeft' = clicksLeft - 1
    /\ IF Blocked(state)
       THEN /\ lastCall' = "returned"
            /\ UNCHANGED <<state, runs>>
       ELSE IF state.data.kind \in {"object", "holed"}
       THEN /\ lastCall' = "threw"
            /\ state' = Reset(state)
            /\ UNCHANGED runs
       ELSE IF state.data.chunks = <<>>
       THEN /\ lastCall' = "finished"
            /\ state' = Finish(Reset(state))
            /\ UNCHANGED runs
       ELSE /\ lastCall' = "yielded"
            /\ state' = Reset(state)
            /\ runs' = Append(runs, [events |-> state.data.chunks, next |-> 1])
    /\ UNCHANGED <<engineVars, clock, ticksLeft, tickedSince, afterShutdown,
                   serverVars, runDisabled>>

\* the setTimeout(resolve, 0) of a suspended run fires: the run processes
\* its events up to the next multiple of YIELD_EVERY, then yields again or,
\* after its last event, computes the results and clears backtestRunning
Resume(k) ==
    /\ k \in 1..Len(runs)
    /\ LET run == runs[k]
           done == Process(state, run.events[run.next])
       IN  IF run.next = Len(run.events)
           THEN /\ state' = Finish(done)
                /\ runs' = SubSeq(runs, 1, k - 1)
                              \o SubSeq(runs, k + 1, Len(runs))
           ELSE /\ state' = done
                /\ runs' = [runs EXCEPT ![k].next = @ + 1]
    /\ UNCHANGED <<engineVars, clock, ticksLeft, tickedSince, afterShutdown,
                   serverVars, runDisabled, clicksLeft, lastCall>>

InitPage == Start(Fresh, MaxTicks)

\* what the user and the event loop of the page do
NextPage ==
    \/ \E file \in Files : Upload(file)
    \/ Click
    \/ \E k \in 1..MaxClicks : Resume(k)

SpecPage == InitPage /\ [][NextPage]_vars

----------------------------------------------------------------------------
(* Vocabulary of the properties *)

Relation(l, f) == marketData.causalityMatrix[l][f]

OrderedPairs == {p \in CoinSet \X CoinSet : p[1] # p[2]}

Max(S) == CHOOSE x \in S : \A y \in S : y <= x

\* the time at which the most recent tick was processed
LastTickTime == Max({marketData.prices[c].lastUpdate : c \in CoinSet})

Expired(e, t) == t - e.timestamp >= LAG_WINDOW

Unexpired(events, t) == SelectSeq(events, LAMBDA e : ~Expired(e, t))

Core(events) ==
    [i \in 1..Len(events) |->
        [leader |-> events[i].leader, timestamp |-> events[i].timestamp,
         changePercent |-> events[i].changePercent]]

\* successfulFollows / (successfulFollows + missedFollows) of the counters
ActualRate(rel) ==
    IF rel.successfulFollows + rel.missedFollows = 0 THEN Zero
    ELSE Rat(rel.successfulFollows, rel.successfulFollows + rel.missedFollows)

Opposite(changePercent, leaderChange) ==
    \/ changePercent.num > 0 /\ leaderChange.num < 0
    \/ changePercent.num < 0 /\ leaderChange.num > 0

Moved(changePercent) == RGeq(RAbs(changePercent), FOLLOW_THRESHOLD)

\* indices of the stored events of leader l still inside the lag window at t
LiveOf(l, t) ==
    {i \in 1..Len(marketData.leaderEvents) :
        /\ marketData.leaderEvents[i].leader = l
        /\ ~Expired(marketData.leaderEvents[i], t)}

OppositeOf(l, t, changePercent) ==
    {i \in LiveOf(l, t) :
        Opposite(changePercent, marketData.leaderEvents[i].changePercent)}

LastN(s, n) == SubSeq(s, Len(s) - n + 1, Len(s))

\* a step that processes a tick of asset c, and the tick's changePercent
TickOf(c) == arrived'[c] # arrived[c]

TickChange(c) == marketData'.prices[c].changePercent

Same(changePercent, leaderChange) ==
    \/ changePercent.num > 0 /\ leaderChange.num > 0
    \/ changePercent.num < 0 /\ leaderChange.num < 0

\* the stored events of leader l inside the lag window at t whose move has
\* the sign of changePercent, in list order
SameOf(l, t, changePercent) ==
    SelectSeq(marketData.leaderEvents,
              LAMBDA e : /\ e.leader = l
                         /\ ~Expired(e, t)
                         /\ Same(changePercent, e.changePercent))

----------------------------------------------------------------------------
(* Properties *)

\* C1: after any processed tick at time t, the leader-event list holds no
\* event e with t - e.timestamp >= LAG_WINDOW.
C1_NoExpiredEventAfterTick ==
    \A i \in 1..Len(marketData.leaderEvents) :
        ~Expired(marketData.leaderEvents[i], LastTickTime)

\* C2: the followRate reported by the matrix snapshot, the best-pairs list
\* and the CSV export is successfulFollows / (successfulFollows +
\* missedFollows) of the pair's counters at read time (0 for no samples).
C2_ReadsReportActualRate ==
    /\ \A l \in CoinSet : \A f \in DOMAIN MatrixSnapshot(marketData)[l] :
          MatrixSnapshot(marketData)[l][f].followRate = ActualRate(Relation(l, f))
    /\ \A q \in Queries :
          LET pairs == BestPairs(marketData, q).pairs
          IN  \A i \in 1..Len(pairs) :
                 pairs[i].followRate =
                     ActualRate(Relation(pairs[i].leader, pairs[i].follower))
    /\ LET rows == CsvExport(marketData)
       IN  \A i \in 1..Len(rows) :
              rows[i].followRate =
                  ToFixed(ActualRate(Relation(rows[i].leader, rows[i].follower)), 3)

\* C3: a tick of F that moved (|changePercent| >= 0.005) adds to
\* relation(L,F).missedFollows exactly one per live event of L of the opposite
\* sign and adds the same to divergenceEvents over all leaders; when L has no
\* live event of the tick's sign, successfulFollows, lagTimes and
\* magnitudeRatios of (L,F) stay as they were.
C3_OppositeTickCountsMiss ==
    [][\A coin \in CoinSet : TickOf(coin) =>
          LET cp == TickChange(coin)
              misses(l) == IF Moved(cp)
                           THEN Cardinality(OppositeOf(l, clock, cp)) ELSE 0
          IN  /\ \A l \in CoinSet \ {coin} :
                    /\ Relation(l, coin)'.missedFollows =
                           Relation(l, coin).missedFollows + misses(l)
                    /\ (Moved(cp) => OppositeOf(l, clock, cp) = LiveOf(l, clock)) =>
                           /\ Relation(l, coin)'.successfulFollows =
                                  Relation(l, coin).successfulFollows
                           /\ Relation(l, coin)'.lagTimes =
                                  Relation(l, coin).lagTimes
                           /\ Relation(l, coin)'.magnitudeRatios =
                                  Relation(l, coin).magnitudeRatios
              /\ marketData'.statistics.divergenceEvents =
                     marketData.statistics.divergenceEvents
                   + ISum([i \in 1..Len(COINS) |->
                              IF COINS[i] = coin THEN 0 ELSE misses(COINS[i])])]_vars

\* a miss has been counted, and the global counter with it
C3_Witness ==
    \E p \in OrderedPairs :
        /\ Relation(p[1], p[2]).missedFollows >= 1
        /\ Relation(p[1], p[2]).successfulFollows = 0
        /\ marketData.statistics.divergenceEvents >= 1

\* C4: an event of age >= LAG_WINDOW changes nothing: a tick of F changes
\* successfulFollows + missedFollows of (L,F) by the number of events of L
\* that are still inside the window (when F moved), and leaves the whole
\* relation alone when there is none, also while expired events of L are
\* still stored in the list.
C4_ExpiredEventHasNoEffect ==
    [][\A coin \in CoinSet : TickOf(coin) =>
          LET cp == TickChange(coin)
          IN  \A l \in CoinSet \ {coin} :
                 LET live == IF Moved(cp)
                             THEN Cardinality(LiveOf(l, clock)) ELSE 0
                 IN  /\ Relation(l, coin)'.successfulFollows
                          + Relation(l, coin)'.missedFollows
                        = Relation(l, coin).successfulFollows
                          + Relation(l, coin).missedFollows + live
                     /\ live = 0 => Relation(l, coin)' = Relation(l, coin)]_vars

\* an expired event is still stored, and another asset has just moved
C4_Witness ==
    \E i \in 1..Len(marketData.leaderEvents) : \E f \in CoinSet :
        /\ Expired(marketData.leaderEvents[i], clock)
        /\ f # marketData.leaderEvents[i].leader
        /\ marketData.prices[f].lastUpdate = clock
        /\ Moved(marketData.prices[f].changePercent)

\* C5: the events created less than LAG_WINDOW before the last processed
\* tick are all in the list, in creation order.
C5_UnexpiredEventsKept ==
    Core(Unexpired(marketData.leaderEvents, LastTickTime))
        = Unexpired(created, LastTickTime)

\* a leader tick has pruned an expired event and kept an unexpired one
C5_Witness ==
    /\ Len(created) > Len(marketData.leaderEvents)
    /\ Len(marketData.leaderEvents) >= 2
    /\ marketData.leaderEvents[1].timestamp < LastTickTime

\* C6: every history holds at most 1000 prices and is the most recent
\* min(n, 1000) prices of the asset's n ticks, in arrival order.
C6_HistoryIsRecentWindow ==
    \A c \in CoinSet :
        LET n == Len(arrived[c])
        IN  /\ Len(marketData.priceHistory[c]) <= HISTORY_LIMIT
            /\ marketData.priceHistory[c] =
                   LastN(arrived[c], IF n < HISTORY_LIMIT THEN n ELSE HISTORY_LIMIT)

\* an asset has received more than 1000 ticks
C6_Witness == \E c \in CoinSet : Len(arrived[c]) > HISTORY_LIMIT

\* C7: every stored followRate lies in [0,1] and is 0 while the pair has no
\* sample.
C7_FollowRateInUnitInterval ==
    \A p \in OrderedPairs :
        LET rel == Relation(p[1], p[2])
        IN  /\ RGeq(rel.followRate, Zero)
            /\ RGeq(RInt(1), rel.followRate)
            /\ rel.successfulFollows + rel.missedFollows = 0 =>
                   rel.followRate = Zero

\* a success was recorded after a miss: the stored rate is strictly inside
C7_Witness ==
    \E p \in OrderedPairs :
        /\ RLess(Zero, Relation(p[1], p[2]).followRate)
        /\ RLess(Relation(p[1], p[2]).followRate, RInt(1))

\* C8: |lagTimes| = |magnitudeRatios| = successfulFollows for every pair.
C8_SamplesMatchSuccesses ==
    \A p \in OrderedPairs :
        LET rel == Relation(p[1], p[2])
        IN  /\ Len(rel.lagTimes) = rel.successfulFollows
            /\ Len(rel.magnitudeRatios) = rel.successfulFollows
            /\ rel.successfulFollows + rel.missedFollows >= Len(rel.lagTimes)

\* a pair has both a success and a miss
C8_Witness ==
    \E p \in OrderedPairs :
        /\ Relation(p[1], p[2]).successfulFollows >= 1
        /\ Relation(p[1], p[2]).missedFollows >= 1

\* C9: the end-to-end scenario.  A ticks 1000 then 1030 at t=0 (+3%): one
\* leader event (A, pump).  B ticks 1000 then 1006 (+0.6%) at t=100:
\* relation(A,B) has one success, lagTimes = <<100>>, avgLag = 100 and
\* magnitude ratio 0.2.  C ticks 1000 then 994 (-0.6%) at t=200:
\* relation(A,C) has one miss and no success, divergenceEvents = 1.
NotYetMoved(c) == arrived[c] \in {<<>>, <<1000>>}

ScenarioA ==
    /\ arrived["A"] = <<1000, 1030>>
    /\ marketData.prices["A"].lastUpdate = 0
    /\ NotYetMoved("B")
    /\ NotYetMoved("C")

ScenarioB ==
    /\ arrived["A"] = <<1000, 1030>>
    /\ marketData.prices["A"].lastUpdate = 0
    /\ arrived["B"] = <<1000, 1006>>
    /\ marketData.prices["B"].lastUpdate = 100
    /\ NotYetMoved("C")

ScenarioC ==
    /\ arrived["A"] = <<1000, 1030>>
    /\ marketData.prices["A"].lastUpdate = 0
    /\ arrived["B"] = <<1000, 1006>>
    /\ marketData.prices["B"].lastUpdate = 100
    /\ arrived["C"] = <<1000, 994>>
    /\ marketData.prices["C"].lastUpdate = 200

OneLeaderEvent ==
    /\ Core(marketData.leaderEvents) =
           <<[leader |-> "A", timestamp |-> 0, changePercent |-> RInt(3)]>>
    /\ marketData.leaderEvents[1].direction = "pump"

C9_EndToEndScenario ==
    /\ ScenarioA =>
          /\ marketData.prices["A"].changePercent = RInt(3)
          /\ OneLeaderEvent
    /\ ScenarioB =>
          /\ OneLeaderEvent
          /\ marketData.prices["B"].changePercent = Rat(6, 10)
          /\ Relation("A", "B").successfulFollows = 1
          /\ Relation("A", "B").lagTimes = <<100>>
          /\ Relation("A", "B").avgLag = RInt(100)
          /\ Relation("A", "B").magnitudeRatios = <<Rat(2, 10)>>
          /\ Relation("A", "B").avgMagnitude = Rat(2, 10)
    /\ ScenarioC =>
          /\ OneLeaderEvent
          /\ marketData.prices["C"].changePercent = Rat(-6, 10)
          /\ Relation("A", "B").successfulFollows = 1
          /\ Relation("A", "C").missedFollows = 1
          /\ Relation("A", "C").successfulFollows = 0
          /\ marketData.statistics.divergenceEvents = 1

C9_Witness == ScenarioC

\* C10: best-pairs returns exactly the pairs with successfulFollows +
\* missedFollows >= minSampleSize whose follow rate successfulFollows /
\* (successfulFollows + missedFollows) exceeds 0.6, by non-increasing
\* followRate, at most 20 of them.
C10_BestPairsByActualRate ==
    \A q \in Queries \ {Param(0)} :
        LET pairs == BestPairs(marketData, q).pairs
            wanted == {p \in OrderedPairs :
                         LET rel == Relation(p[1], p[2])
                         IN  /\ rel.successfulFollows + rel.missedFollows
                                    >= MinSampleSize(q)
                             /\ RLess(RATE_FLOOR, ActualRate(rel))}
        IN  /\ Len(pairs) <= TOP_PAIRS
            /\ \A i \in 1..Len(pairs) - 1 :
                  RGeq(pairs[i].followRate, pairs[i + 1].followRate)
            /\ Cardinality(wanted) <= TOP_PAIRS =>
                  {<<pairs[i].leader, pairs[i].follower>> : i \in 1..Len(pairs)}
                      = wanted

----------------------------------------------------------------------------
(* Tick ordering and counting *)

\* the number of ticks in an arrival record
ArrivedCount(a) == ISum([i \in 1..Len(COINS) |-> Len(a[COINS[i]])])

\* C13: every accepted tick is applied exactly once and in arrival order:
\* totalTicks is the number of ticks accepted so far, a tick appends exactly
\* one entry, its price, to the history of its coin and to no other, the
\* history lists the prices in the order of arrival, and totalTicks and
\* divergenceEvents never decrease.
C13_TicksAppliedOnceInOrder ==
    [][/\ marketData'.statistics.totalTicks >= marketData.statistics.totalTicks
       /\ marketData'.statistics.divergenceEvents
              >= marketData.statistics.divergenceEvents
       /\ marketData'.statistics.totalTicks = ArrivedCount(arrived')
       /\ \A coin \in CoinSet :
              TickOf(coin) =>
                /\ marketData'.statistics.totalTicks
                       = marketData.statistics.totalTicks + 1
                /\ Len(marketData.priceHistory[coin]) < HISTORY_LIMIT =>
                       marketData'.priceHistory[coin]
                          = Append(marketData.priceHistory[coin],
                                   arrived'[coin][Len(arrived'[coin])])
                /\ marketData'.priceHistory[coin] = arrived'[coin]
                /\ \A other \in CoinSet \ {coin} :
                       marketData'.priceHistory[other]
                          = marketData.priceHistory[other]
      ]_vars

\* two ticks of one coin and a tick of another were accepted
C13_Witness ==
    /\ ticksLeft = 0
    /\ \E c, d \in CoinSet :
          c # d /\ Len(arrived[c]) >= 2 /\ Len(arrived[d]) >= 1
             /\ arrived[c][Len(arrived[c])] # arrived[c][Len(arrived[c]) - 1]

----------------------------------------------------------------------------
(* Feed messages that are not tickers of configured coins *)

EngineUnchanged ==
    /\ marketData' = marketData
    /\ pendingUpdates' = pendingUpdates

\* C11: a ticker whose product id is not one of COINS is dropped: prices,
\* priceHistory, leaderEvents, causalityMatrix, statistics and
\* pendingUpdates are unchanged and no price state exists for that id.
C11_UnknownAssetTickDropped ==
    [][\A id \in ProductIds \ CoinSet, price \in FeedPrices :
          Message(Ticker(id, price)) =>
             /\ EngineUnchanged
             /\ id \notin DOMAIN marketData'.prices
      ]_vars

\* C12: a payload that is not JSON, or a ticker of a configured coin whose
\* price is no number, is discarded: prices, priceHistory, leaderEvents,
\* causalityMatrix and pendingUpdates are unchanged and totalTicks is not
\* incremented.
C12_MalformedTickDiscarded ==
    [][\A msg \in {Garbage} \cup {Ticker(c, NaN) : c \in CoinSet} :
          Message(msg) =>
             /\ EngineUnchanged
             /\ marketData'.statistics.totalTicks
                    = marketData.statistics.totalTicks
      ]_vars

----------------------------------------------------------------------------
(* Division guards *)

\* every number the engine has computed by a division and keeps
DerivedNumbers(md) ==
    UNION {
        {md.prices[c].changePercent : c \in CoinSet},
        {md.leaderEvents[i].changePercent : i \in 1..Len(md.leaderEvents)},
        UNION {{md.leaderEvents[i].followersResponded[f].magnitudeRatio :
                   f \in DOMAIN md.leaderEvents[i].followersResponded} :
               i \in 1..Len(md.leaderEvents)},
        UNION {{md.causalityMatrix[p[1]][p[2]].avgLag,
                md.causalityMatrix[p[1]][p[2]].avgMagnitude,
                md.causalityMatrix[p[1]][p[2]].followRate} :
               p \in OrderedPairs},
        UNION {{md.causalityMatrix[p[1]][p[2]].magnitudeRatios[k] :
                   k \in 1..Len(md.causalityMatrix[p[1]][p[2]].magnitudeRatios)} :
               p \in OrderedPairs}}

\* the last tick of coin c met no previous price, or a previous price of 0
NoPreviousPrice(c) ==
    \/ Len(arrived[c]) = 1
    \/ Len(arrived[c]) >= 2 /\ arrived[c][Len(arrived[c]) - 1] = 0

\* C20: tick processing produces no arithmetic fault: every number obtained
\* by a division is finite (its divisor was not zero), changePercent is 0
\* when the previous price is absent or 0, and followRate is 0 while
\* successfulFollows + missedFollows = 0.
C20_NoArithmeticFault ==
    /\ \A r \in DerivedNumbers(marketData) : Finite(r)
    /\ \A c \in CoinSet :
          NoPreviousPrice(c) => marketData.prices[c].changePercent = Zero
    /\ \A p \in OrderedPairs :
          Relation(p[1], p[2]).successfulFollows
             + Relation(p[1], p[2]).missedFollows = 0
          => Relation(p[1], p[2]).followRate = Zero

\* a coin has ticked at price 0 while its previous price was 0: the case in
\* which the divisor oldPrice is zero
C20_Witness ==
    \E c \in CoinSet :
        /\ Len(arrived[c]) >= 2
        /\ arrived[c][Len(arrived[c])] = 0
        /\ arrived[c][Len(arrived[c]) - 1] = 0

----------------------------------------------------------------------------
(* Broadcasts to dashboard clients *)

Last(q) == q[Len(q)]

\* what a batch_update sent now has to carry: the latest price state of
\* every coin ticked since the previous broadcast
DueUpdates == [c \in tickedSince |-> marketData.prices[c]]

\* C15: a tick sends nothing to dashboard clients; a batch_update is sent
\* only by the broadcast timer, only when some coin ticked since the
\* previous one, it carries exactly the coins ticked since then, each with
\* its latest price state, it reaches every open client, and it leaves the
\* pending buffer empty; between broadcasts the buffer holds exactly the
\* coins ticked since the last one.
C15_BatchesOnlyFromTimer ==
    [][/\ (\E coin \in CoinSet : TickOf(coin)) =>
             inbox' = inbox /\ batches' = batches
       /\ \A c \in ClientIds :
             (inbox'[c] # inbox[c] /\ Last(inbox'[c]).type = "batch_update")
                => batches' # batches
       /\ batches' # batches =>
             /\ tickedSince # {}
             /\ \E m \in {Last(batches')} :
                   /\ batches' = Append(batches, m)
                   /\ m.type = "batch_update"
                   /\ m.updates = DueUpdates
                   /\ \A c \in ClientIds :
                         readyState[c] = "open" =>
                            inbox'[c] = Append(inbox[c], m)
             /\ pendingUpdates' = <<>>
       /\ DOMAIN pendingUpdates' = tickedSince'
      ]_vars

\* two batches with different coins were sent, the second to a client that
\* had received the first, and a timer callback has found nothing to send
C15_Witness ==
    /\ Len(batches) = 2
    /\ DOMAIN batches[1].updates # DOMAIN batches[2].updates
    /\ \E c \in ClientIds :
          /\ Len(inbox[c]) = 3
          /\ inbox[c][2] = batches[1]
          /\ inbox[c][3] = batches[2]
    /\ pendingUpdates = <<>>

----------------------------------------------------------------------------
(* Shutdown, persistence failures and reconnection *)

\* C17: once the SIGINT handler has run, a final dump has been attempted, no
\* tick has been processed and connectToCoinbase has not been invoked since,
\* and while the process still runs the feed socket is not open or
\* connecting and no reconnect timer is pending.
C17_ShutdownStopsFeed ==
    shuttingDown =>
        /\ lastSave # "none"
        /\ afterShutdown = {}
        /\ proc = "running" =>
              /\ coinbaseWS \notin {"connecting", "open"}
              /\ reconnectTimeout = NoTimer

\* C18: whatever persistence step fails during a periodic save, the process
\* keeps running, the engine state is unchanged and the save timer stays
\* armed.
C18_SaveFailureNotFatal ==
    [][\A outcome \in SaveOutcomes :
          SaveTimer(outcome) =>
             /\ proc' = "running"
             /\ EngineUnchanged
             /\ arrived' = arrived
      ]_vars

\* a reconnect timer is pending
ReconnectPending == reconnectTimeout # NoTimer

\* C19: when the feed socket closes no engine state changes and one
\* reconnect is scheduled, due RECONNECT_DELAY later; a scheduled reconnect
\* eventually runs unless shutdown intervenes.
C19_CloseSchedulesReconnect ==
    /\ [][(coinbaseWS # "closed" /\ coinbaseWS' = "closed") =>
             /\ EngineUnchanged
             /\ reconnectTimeout' = clock + RECONNECT_DELAY
          ]_vars
    /\ ReconnectPending ~> (~ReconnectPending \/ shuttingDown)

----------------------------------------------------------------------------
(* Reads *)

Repeatable == {"matrix", "best-pairs", "csv"}

\* C16: serving a request (prices, history, matrix, best pairs, CSV) changes
\* no engine state, and a matrix, best-pairs or CSV request served again with
\* no tick processed in between gets the reply it got before.
C16_ReadsPureAndRepeatable ==
    [][lastResponse' # lastResponse =>
          /\ EngineUnchanged
          /\ arrived' = arrived
          /\ (lastResponse'.again
                /\ lastResponse'.request.endpoint \in Repeatable)
             => lastResponse'.reply = lastResponse.reply
      ]_vars

\* a matrix request whose reply lists a relation was served again, later
\* than the last tick and with no tick in between
C16_Witness ==
    /\ lastResponse.again
    /\ lastResponse.request.endpoint = "matrix"
    /\ \E l \in CoinSet : DOMAIN lastResponse.reply.matrix[l] # {}
    /\ clock > LastTickTime

----------------------------------------------------------------------------
(* Matrix snapshot and CSV export *)

\* a pair that has misses but no success, and a pair that has successes
OnlyMissesAndFollowed ==
    \E p, r \in OrderedPairs :
        /\ Relation(p[1], p[2]).successfulFollows = 0
        /\ Relation(p[1], p[2]).missedFollows > 0
        /\ Relation(r[1], r[2]).successfulFollows > 0

\* C21: the matrix snapshot has an entry for an ordered pair exactly when
\* the pair's successfulFollows > 0, and the entry's sampleSize is the
\* length of the pair's lagTimes; pairs without a success are absent.
C21_MatrixListsFollowedPairs ==
    LET m == MatrixSnapshot(marketData)
    IN  /\ DOMAIN m = CoinSet
        /\ \A p \in OrderedPairs :
              /\ p[2] \in DOMAIN m[p[1]]
                    <=> Relation(p[1], p[2]).successfulFollows > 0
              /\ p[2] \in DOMAIN m[p[1]] =>
                    m[p[1]][p[2]].sampleSize = Len(Relation(p[1], p[2]).lagTimes)
        /\ \A c \in CoinSet : c \notin DOMAIN m[c]

C21_Witness ==
    /\ OnlyMissesAndFollowed
    /\ \E l \in CoinSet : DOMAIN MatrixSnapshot(marketData)[l] # {}

\* the rows of the export for the pair (l, f)
RowsOf(rows, l, f) ==
    {i \in 1..Len(rows) : rows[i].leader = l /\ rows[i].follower = f}

\* C22: after the header the CSV export has exactly one row for each ordered
\* pair with successfulFollows + missedFollows > 0 and none for any other
\* pair; the row's successes, misses and sample size are the pair's
\* successfulFollows, missedFollows and length of lagTimes.
C22_CsvListsTriedPairs ==
    LET rows == CsvExport(marketData)
    IN  /\ \A p \in OrderedPairs :
              LET rel == Relation(p[1], p[2])
                  mine == RowsOf(rows, p[1], p[2])
              IN  /\ Cardinality(mine)
                        = IF rel.successfulFollows + rel.missedFollows > 0
                          THEN 1 ELSE 0
                  /\ \A i \in mine :
                        /\ rows[i].successfulFollows = rel.successfulFollows
                        /\ rows[i].missedFollows = rel.missedFollows
                        /\ rows[i].sampleSize = Len(rel.lagTimes)
        /\ \A i \in 1..Len(rows) :
              <<rows[i].leader, rows[i].follower>> \in OrderedPairs

C22_Witness ==
    /\ OnlyMissesAndFollowed
    /\ Len(CsvExport(marketData)) >= 2

----------------------------------------------------------------------------
(* Leader events as seen by reads *)

\* C24: at any moment a read may occur, the leader events it returns hold
\* no event of age >= LAG_WINDOW at that moment: neither the matrix
\* endpoint's nor the initial_state's list does, and the count carried by a
\* batch_update is the number of events still inside the window.
C24_ReadsSeeNoExpiredEvent ==
    /\ \A i \in 1..Len(MatrixReply(marketData, clock).leaderEvents) :
          ~Expired(MatrixReply(marketData, clock).leaderEvents[i], clock)
    /\ \A i \in 1..Len(InitialState.leaderEvents) :
          ~Expired(InitialState.leaderEvents[i], clock)
    /\ BatchUpdate.leaderEvents
          = Len(Unexpired(marketData.leaderEvents, clock))
----------------------------------------------------------------------------
(* Dashboard subscribers *)

\* C23: a connection enters the client set when it connects and is then sent
\* one initial_state built from the state at that moment; it stays in the set
\* until its close event removes it; its messages are that initial_state
\* followed by batch_updates only; and a batch_update reaches only a
\* connection that is in the set and open when the broadcast runs.
C23_SubscriberGetsInitialStateFirst ==
    [][\A c \in ClientIds :
          /\ c \in clients' \ clients =>
                /\ readyState[c] = "new"
                /\ readyState'[c] = "open"
                /\ inbox'[c] = <<InitialState>>
          /\ c \in clients \ clients' => readyState'[c] = "closed"
          /\ c \in clients' <=> readyState'[c] \in {"open", "closing"}
          /\ readyState'[c] = "new" => inbox'[c] = <<>>
          /\ readyState'[c] # "new" =>
                /\ inbox'[c] # <<>>
                /\ inbox'[c][1].type = "initial_state"
                /\ \A i \in 2..Len(inbox'[c]) :
                      inbox'[c][i].type = "batch_update"
          /\ inbox'[c] # inbox[c] =>
                \/ c \in clients' \ clients
                \/ /\ c \in clients
                   /\ readyState[c] = "open"
                   /\ inbox'[c] = Append(inbox[c], Last(batches'))
                   /\ batches' # batches
      ]_vars

\* a connection that received its initial_state and one batch is closing,
\* still in the set, and a second batch has gone out without reaching it
C23_Witness ==
    \E c \in clients :
        /\ readyState[c] = "closing"
        /\ Len(inbox[c]) = 2
        /\ inbox[c][1].type = "initial_state"
        /\ inbox[c][2] = batches[1]
        /\ Len(batches) = 2

----------------------------------------------------------------------------
(* History queries *)

\* C25: a history request changes no state and leaves the process running;
\* for an id that is not a configured coin the reply has status 404, and for
\* a configured coin it has status 200 and carries the last
\* min(100, length) entries of the coin's history, in arrival order.
C25_HistoryNotFoundOrTail ==
    [][(lastResponse' # lastResponse
          /\ lastResponse'.request.endpoint = "history") =>
          LET coin == lastResponse'.request.coin
              reply == lastResponse'.reply
          IN  /\ EngineUnchanged
              /\ arrived' = arrived
              /\ proc' = "running"
              /\ coin \notin CoinSet => reply.status = 404
              /\ coin \in CoinSet =>
                    LET h == marketData.priceHistory[coin]
                    IN  /\ reply.status = 200
                        /\ reply.history =
                              IF Len(h) < 100 THEN h ELSE LastN(h, 100)
      ]_vars

----------------------------------------------------------------------------
(* Leader detection *)

\* C26: a tick whose |changePercent| >= MOVE_THRESHOLD appends exactly one
\* leader event, with the tick's coin as leader, the tick's time as
\* timestamp and direction pump for a rise and dump for a fall, to the
\* events that are still within LAG_WINDOW; a tick whose |changePercent| is
\* smaller adds no event and removes none.
C26_LeaderEventIffThreshold ==
    [][\A c \in CoinSet : TickOf(c) =>
          LET cp == TickChange(c)
          IN  IF RGeq(RAbs(cp), RInt(MOVE_THRESHOLD))
              THEN /\ Core(marketData'.leaderEvents) =
                         Append(Core(Unexpired(marketData.leaderEvents, clock)),
                                [leader |-> c, timestamp |-> clock,
                                 changePercent |-> cp])
                   /\ Last(marketData'.leaderEvents).direction =
                         IF cp.num > 0 THEN "pump" ELSE "dump"
              ELSE Core(marketData'.leaderEvents) =
                      Core(marketData.leaderEvents)
      ]_vars

\* a move of exactly MOVE_THRESHOLD percent made a leader event, and the
\* same coin's next move, smaller than that, made none
C26_Witness ==
    /\ Len(marketData.leaderEvents) = 1
    /\ RAbs(marketData.leaderEvents[1].changePercent) = RInt(MOVE_THRESHOLD)
    /\ LET c == marketData.leaderEvents[1].leader
       IN  /\ Len(arrived[c]) = 3
           /\ marketData.prices[c].changePercent # Zero
           /\ RLess(RAbs(marketData.prices[c].changePercent),
                    RInt(MOVE_THRESHOLD))

----------------------------------------------------------------------------
(* The follower loop *)

\* C27: a tick of F that moved (|changePercent| >= 0.005) is matched with
\* every live event of every other asset on its own: for the k live events
\* of leader L that have the tick's sign, successfulFollows of (L,F) grows
\* by k and the k lags and k magnitude ratios are appended in list order,
\* whether or not F has already responded to these events.
C27_EveryLiveEventCredited ==
    [][\A coin \in CoinSet : (TickOf(coin) /\ Moved(TickChange(coin))) =>
          \A l \in CoinSet \ {coin} :
              LET cp == TickChange(coin)
                  same == SameOf(l, clock, cp)
                  k == Len(same)
              IN  /\ Relation(l, coin)'.successfulFollows =
                        Relation(l, coin).successfulFollows + k
                  /\ Relation(l, coin)'.lagTimes =
                        Relation(l, coin).lagTimes
                        \o [i \in 1..k |-> clock - same[i].timestamp]
                  /\ Relation(l, coin)'.magnitudeRatios =
                        Relation(l, coin).magnitudeRatios
                        \o [i \in 1..k |->
                               RAbs(RDiv(cp, same[i].changePercent))]
      ]_vars

\* two pumps of A are live and B has followed each of them twice, with two
\* ticks at different times
C27_Witness ==
    /\ Len(SameOf("A", clock, RInt(1))) = 2
    /\ Relation("A", "B").successfulFollows = 4
    /\ Len(arrived["B"]) = 3
    /\ Relation("A", "B").lagTimes[1] # Relation("A", "B").lagTimes[3]

\* C28: a tick of X changes no relation whose leader is X and records no
\* response on an event of X, the event it has just created included; and a
\* tick of X that creates a leader event is matched in the same step against
\* the live events of every other asset: successes plus misses of (L,X) grow
\* by the number of L's live events.
C28_OwnEventsSkipped ==
    [][\A x \in CoinSet : TickOf(x) =>
          /\ \A f \in CoinSet \ {x} : Relation(x, f)' = Relation(x, f)
          /\ \A i \in 1..Len(marketData'.leaderEvents) :
                marketData'.leaderEvents[i].leader = x =>
                   x \notin DOMAIN marketData'.leaderEvents[i].followersResponded
          /\ RGeq(RAbs(TickChange(x)), RInt(MOVE_THRESHOLD)) =>
                /\ Last(marketData'.leaderEvents).leader = x
                /\ Last(marketData'.leaderEvents).timestamp = clock
                /\ \A l \in CoinSet \ {x} :
                      Relation(l, x)'.successfulFollows
                         + Relation(l, x)'.missedFollows
                      = Relation(l, x).successfulFollows
                         + Relation(l, x).missedFollows
                         + Cardinality(LiveOf(l, clock))
      ]_vars

\* B's leader move followed A's live event: B has an event of its own, with
\* no response recorded, and A's event records B's response
C28_Witness ==
    \E i, j \in 1..Len(marketData.leaderEvents) :
        /\ marketData.leaderEvents[i].leader = "A"
        /\ marketData.leaderEvents[j].leader = "B"
        /\ "B" \in DOMAIN marketData.leaderEvents[i].followersResponded
        /\ marketData.leaderEvents[j].followersResponded = <<>>
        /\ Relation("A", "B").successfulFollows = 1
        /\ marketData.leaderEvents[i].followersResponded["B"].changePercent
              = marketData.leaderEvents[j].changePercent

----------------------------------------------------------------------------
(* Averages *)

\* C29: for every pair with a success, avgLag times the number of lags is
\* the sum of all its lagTimes and avgMagnitude times the number of ratios
\* is the sum of all its magnitudeRatios; for a pair with no success both
\* lists are empty and both averages are 0.
C29_AveragesAreMeansOfAllSamples ==
    \A p \in OrderedPairs :
        LET rel == Relation(p[1], p[2])
        IN  IF rel.successfulFollows > 0
            THEN /\ rel.avgLag = Rat(ISum(rel.lagTimes), Len(rel.lagTimes))
                 /\ rel.avgMagnitude =
                       RDiv(RSum(rel.magnitudeRatios),
                            RInt(Len(rel.magnitudeRatios)))
            ELSE /\ rel.lagTimes = <<>>
                 /\ rel.magnitudeRatios = <<>>
                 /\ rel.avgLag = Zero
                 /\ rel.avgMagnitude = Zero

\* a pair has three successes with lags and ratios that are not all equal,
\* so that the mean of all differs from a mean of the latest two
C29_Witness ==
    \E p \in OrderedPairs :
        LET rel == Relation(p[1], p[2])
        IN  /\ rel.successfulFollows >= 3
            /\ rel.lagTimes[1] # rel.lagTimes[3]
            /\ rel.magnitudeRatios[1] # rel.magnitudeRatios[3]
            /\ rel.avgLag # Rat(rel.lagTimes[2] + rel.lagTimes[3], 2)

----------------------------------------------------------------------------
(* Ticks without a previous price *)

\* C30: a tick with a numeric price of an asset that has no previous price,
\* or whose stored price is 0 or not a number, gets change = 0 and
\* changePercent = 0; it creates no leader event, records no response and
\* changes no relation and no divergence count.
C30_FirstTickIsNeutral ==
    [][\A c \in CoinSet :
          (/\ TickOf(c)
           /\ marketData'.prices[c].price # NaN
           /\ \/ arrived[c] = <<>>
              \/ marketData.prices[c].price \in {0, NaN})
          => /\ marketData'.prices[c].change = 0
             /\ marketData'.prices[c].changePercent = Zero
             /\ marketData'.leaderEvents = marketData.leaderEvents
             /\ marketData'.causalityMatrix = marketData.causalityMatrix
             /\ marketData'.statistics.divergenceEvents =
                   marketData.statistics.divergenceEvents
      ]_vars

\* while A's leader event was live, B ticked at 1000 with a stored price of
\* 0, and nothing but B's price state changed
C30_Witness ==
    /\ arrived["B"] = <<1000, 0, 1000>>
    /\ marketData.prices["B"].change = 0
    /\ \E i \in LiveOf("A", clock) :
          marketData.leaderEvents[i].followersResponded = <<>>
    /\ Relation("A", "B").successfulFollows = 0

----------------------------------------------------------------------------
(* Ticks that meet no live event *)

\* a tick of c that did not move, or met no unexpired event of another asset
QuietTick(c) ==
    /\ TickOf(c)
    /\ \/ ~Moved(TickChange(c))
       \/ \A l \in CoinSet \ {c} : LiveOf(l, clock) = {}

\* what every tick of c does to the price state, the history, the tick count
\* and the pending updates, and to nothing of another coin
PriceStateEffects(c) ==
    /\ \A d \in CoinSet \ {c} :
          /\ marketData'.prices[d] = marketData.prices[d]
          /\ marketData'.priceHistory[d] = marketData.priceHistory[d]
    /\ marketData'.prices[c].price = Last(arrived'[c])
    /\ marketData'.prices[c].lastUpdate = clock
    /\ LET h == Append(marketData.priceHistory[c], Last(arrived'[c]))
       IN  marketData'.priceHistory[c] =
              IF Len(h) > HISTORY_LIMIT THEN Tail(h) ELSE h
    /\ marketData'.statistics.totalTicks =
          marketData.statistics.totalTicks + 1
    /\ DOMAIN pendingUpdates' = DOMAIN pendingUpdates \cup {c}
    /\ pendingUpdates'[c] = marketData'.prices[c]
    /\ \A d \in DOMAIN pendingUpdates \ {c} :
          pendingUpdates'[d] = pendingUpdates[d]

\* C31 as stated: a tick with |changePercent| < 0.005, or one that meets no
\* unexpired event of another asset, leaves the causality matrix,
\* divergenceEvents and the leader-event list as they were; it only
\* overwrites the price state, appends to the history, counts the tick and
\* enters the pending update.
C31_QuietTickOnlyUpdatesPrice ==
    [][\A c \in CoinSet : QuietTick(c) =>
          /\ marketData'.causalityMatrix = marketData.causalityMatrix
          /\ marketData'.statistics.divergenceEvents =
                marketData.statistics.divergenceEvents
          /\ marketData'.leaderEvents = marketData.leaderEvents
          /\ PriceStateEffects(c)
      ]_vars

\* C31 as amended: such a tick leaves the causality matrix and
\* divergenceEvents as they were and records no response; besides the price
\* state, history, tick count and pending update it changes the
\* leader-event list exactly when |changePercent| >= MOVE_THRESHOLD, and
\* then to the unexpired events followed by its own new event.
C31_QuietTickLeavesMatrix ==
    [][\A c \in CoinSet : QuietTick(c) =>
          /\ marketData'.causalityMatrix = marketData.causalityMatrix
          /\ marketData'.statistics.divergenceEvents =
                marketData.statistics.divergenceEvents
          /\ IF RGeq(RAbs(TickChange(c)), RInt(MOVE_THRESHOLD))
             THEN /\ marketData'.leaderEvents # <<>>
                  /\ SubSeq(marketData'.leaderEvents, 1,
                            Len(marketData'.leaderEvents) - 1)
                        = Unexpired(marketData.leaderEvents, clock)
                  /\ Last(marketData'.leaderEvents).leader = c
                  /\ Last(marketData'.leaderEvents).followersResponded = <<>>
             ELSE marketData'.leaderEvents = marketData.leaderEvents
          /\ PriceStateEffects(c)
      ]_vars

\* the list still holds an expired event of a leader, another asset has just
\* moved, and their relation has recorded nothing
C31_Witness ==
    \E i \in 1..Len(marketData.leaderEvents) : \E f \in CoinSet :
        LET l == marketData.leaderEvents[i].leader
        IN  /\ Expired(marketData.leaderEvents[i], clock)
            /\ f # l
            /\ marketData.prices[f].lastUpdate = clock
            /\ Moved(marketData.prices[f].changePercent)
            /\ Relation(l, f).successfulFollows = 0
            /\ Relation(l, f).missedFollows = 0
            /\ marketData.statistics.divergenceEvents = 0

----------------------------------------------------------------------------
(* The minSamples parameter of best-pairs *)

\* C33: best-pairs takes as its sample-size threshold the minSamples value
\* the caller supplied, whatever integer it is, and 10 when the parameter is
\* absent: it lists exactly the pairs with successfulFollows + missedFollows
\* at or above that threshold whose stored followRate exceeds 0.6.
C33_BestPairsUsesGivenMinSamples ==
    \A q \in Queries :
        LET threshold == IF q.given THEN q.value ELSE DEFAULT_MIN_SAMPLES
            reply == BestPairs(marketData, q)
            wanted == {p \in OrderedPairs :
                         LET rel == Relation(p[1], p[2])
                         IN  /\ rel.successfulFollows + rel.missedFollows
                                    >= threshold
                             /\ RLess(RATE_FLOOR, rel.followRate)}
        IN  /\ reply.totalPairsAnalyzed = Cardinality(wanted)
            /\ {<<reply.pairs[i].leader, reply.pairs[i].follower>> :
                   i \in 1..Len(reply.pairs)} = wanted

----------------------------------------------------------------------------
(* Shape of the causality matrix *)

\* C32: the causality matrix has a row for every configured asset and, in
\* the row of X, an entry for every configured asset but X: the N*(N-1)
\* ordered pairs of distinct assets and nothing else, whatever the feed has
\* delivered.
C32_MatrixIsDense ==
    /\ DOMAIN marketData.causalityMatrix = CoinSet
    /\ \A l \in CoinSet :
          DOMAIN marketData.causalityMatrix[l] = CoinSet \ {l}
    /\ Cardinality({p \in CoinSet \X CoinSet :
                       p[2] \in DOMAIN marketData.causalityMatrix[p[1]]})
          = Len(COINS) * (Len(COINS) - 1)

\* ticks have created a leader event and recorded a follow in a relation
C32_Witness ==
    /\ \E p \in OrderedPairs : Relation(p[1], p[2]).successfulFollows > 0
    /\ marketData.leaderEvents # <<>>
    /\ marketData.statistics.totalTicks >= Len(COINS) + 2

----------------------------------------------------------------------------
(* Pruning on leader ticks only against pruning on every tick *)

\* C34: after every tick the causality matrix and divergenceEvents are those
\* of the reference engine, which removes the expired events from its list
\* at every tick.
C34_SameAsPruningEveryTick ==
    /\ marketData.causalityMatrix = reference.causalityMatrix
    /\ marketData.statistics.divergenceEvents =
          reference.statistics.divergenceEvents

\* the list holds an expired event that the reference engine has removed,
\* and a relation has recorded a follow
C34_Witness ==
    /\ Len(reference.leaderEvents) < Len(marketData.leaderEvents)
    /\ \E i \in 1..Len(marketData.leaderEvents) :
          Expired(marketData.leaderEvents[i], LastTickTime)
    /\ \E p \in OrderedPairs : Relation(p[1], p[2]).successfulFollows > 0

----------------------------------------------------------------------------
(* The global divergence count *)

\* C35: statistics.divergenceEvents is the sum of missedFollows over all
\* ordered pairs of the causality matrix.
C35_DivergenceIsSumOfMisses ==
    marketData.statistics.divergenceEvents =
        ISum([i \in 1..Len(PairOrder) |->
                 Relation(PairOrder[i].leader,
                          PairOrder[i].follower).missedFollows])

\* two different pairs have each recorded a miss
C35_Witness ==
    \E p, r \in OrderedPairs :
        /\ p # r
        /\ Relation(p[1], p[2]).missedFollows >= 1
        /\ Relation(r[1], r[2]).missedFollows >= 1
        /\ marketData.statistics.divergenceEvents >= 2

----------------------------------------------------------------------------
(* The leader-event list *)

\* a step that processes a tick of c with |changePercent| >= MOVE_THRESHOLD
LeaderTickOf(c) ==
    TickOf(c) /\ RGeq(RAbs(TickChange(c)), RInt(MOVE_THRESHOLD))

\* C36: the events of the leader-event list (who led, when, by how much)
\* change only in a step that processes a tick creating a leader event; after
\* such a step every event of the list is younger than LAG_WINDOW at the
\* tick's time, the new event is the last one, and the list holds the
\* unexpired events ever created, in the order of their creation.
C36_ListChangesOnLeaderTicksOnly ==
    [][/\ Core(marketData'.leaderEvents) # Core(marketData.leaderEvents) =>
             \E c \in CoinSet : LeaderTickOf(c)
       /\ \A c \in CoinSet : LeaderTickOf(c) =>
             /\ \A i \in 1..Len(marketData'.leaderEvents) :
                   clock - marketData'.leaderEvents[i].timestamp < LAG_WINDOW
             /\ Last(Core(marketData'.leaderEvents)) = Last(created')
             /\ Last(created').leader = c
             /\ Last(created').timestamp = clock
             /\ Core(marketData'.leaderEvents) = Unexpired(created', clock)
             /\ \A i, j \in 1..Len(marketData'.leaderEvents) :
                   i < j => marketData'.leaderEvents[i].timestamp
                               <= marketData'.leaderEvents[j].timestamp
      ]_vars

\* a leader tick has just dropped an expired event and kept a younger one of
\* another leader in front of its own
C36_Witness ==
    /\ Len(created) = 3
    /\ Len(marketData.leaderEvents) = 2
    /\ Last(marketData.leaderEvents).timestamp = clock
    /\ marketData.leaderEvents[1].leader # marketData.leaderEvents[2].leader
    /\ marketData.leaderEvents[1].timestamp < clock
    /\ Expired(created[1], clock)

----------------------------------------------------------------------------
(* One upstream connection *)

\* the upstream sockets that are connecting or open
LiveConnections ==
    upstream.orphans
       + (IF coinbaseWS \in {"connecting", "open"} THEN 1 ELSE 0)

\* C37: at most one upstream socket is connecting or open, and none was ever
\* replaced while it was not closed; a reconnect timer is pending only
\* while the socket is closed, and the startup timer only before the first
\* socket is made, so that at most one of timer and connection exists.
C37_OneUpstreamConnection ==
    /\ LiveConnections <= 1
    /\ upstream.orphans = 0
    /\ reconnectTimeout # NoTimer => coinbaseWS = "closed" /\ ~startupTimer
    /\ startupTimer => coinbaseWS = "null" /\ upstream.made = 0

\* a second socket has been made by the reconnect timer and has opened
C37_Witness ==
    /\ upstream.made = 2
    /\ coinbaseWS = "open"
    /\ reconnectTimeout = NoTimer

----------------------------------------------------------------------------
(* The backtest run of the browser page *)

\* C38: at most one runBacktest execution is in progress, and a call of
\* runBacktest made while state.backtestRunning is true changes nothing of
\* the state (results, patternStats, equityCurve, tradeLog) and starts no
\* execution.
C38_OneBacktestAtATime ==
    [][/\ Len(runs') <= 1
       /\ (clicksLeft' # clicksLeft /\ state.backtestRunning) =>
             /\ state' = state
             /\ runs' = runs
      ]_vars

\* a call has returned at the guard while a run that has recorded a trade is
\* suspended at its await
C38_Witness ==
    /\ lastCall = "returned"
    /\ Len(runs) = 1
    /\ state.backtestRunning
    /\ state.tradeLog > 0

\* C39: backtestRunning is true only while an execution of runBacktest is
\* in progress, which clears it when it ends; so it never stays true with
\* nothing left to clear it, whatever state.data holds.
C39_RunningFlagIsCleared ==
    state.backtestRunning => runs # <<>>

====
